---------------------------- MODULE Spec2Model ----------------------------
(***************************************************************************)
(* A model of package gset (src/gset.go): Set[T comparable], a generic    *)
(* set stored as the keys of a Go map[T]struct{}.                          *)
(*                                                                         *)
(* A Set value is a reference to map storage: the model keeps the client's *)
(* variables (sets), the storage they refer to (heap), and one call at a   *)
(* time (pc, last, ret).  Ranging over a Go map visits its keys in an      *)
(* unspecified order, so every loop `for element := range m` takes its     *)
(* order as an input that the calling action chooses freely.               *)
(*                                                                         *)
(* Text is a sequence of byte values (ASCII codes), so that rendering and  *)
(* the comparison of renderings are computed, not assumed.                 *)
(***************************************************************************)
EXTENDS Integers, Sequences, FiniteSets

VARIABLES
    T,      \* the element type the sets of this run are instantiated with
    sets,   \* the client's variables of type Set[T]: a reference or Nil
    heap,   \* map storage: reference -> the keys stored in that map
    pc,     \* "idle" | "returned" | "panicked": where the client is
    last,   \* the call just made, with the state it was made in
    ret,    \* what the call returned
    ref,    \* ghost: the mathematical set each variable should hold
    link,   \* ghost: the last c := s.Copy(), and which side changed since
    slice   \* the client's slice variable u, kept from ToSlice/ToSortedSlice

vars == <<T, sets, heap, pc, last, ret, ref, link, slice>>

-----------------------------------------------------------------------------
(* Bounds of the model.                                                    *)

\* The longest argument list given to a variadic call (New, Add, Delete).
MaxArgs == 2

-----------------------------------------------------------------------------
(* Text: byte sequences.                                                   *)

LBrace == 123   \* "{"
Space == 32     \* " "
RBrace == 125   \* "}"

\* Go's < on strings: bytewise lexicographic order.
RECURSIVE StrLess(_, _)
StrLess(a, b) ==
    IF b = <<>> THEN FALSE
    ELSE IF a = <<>> THEN TRUE
    ELSE IF Head(a) # Head(b) THEN Head(a) < Head(b)
    ELSE StrLess(Tail(a), Tail(b))

\* The decimal digits of a natural number, as fmt prints them.
RECURSIVE Digits(_)
Digits(n) ==
    IF n < 10 THEN <<48 + n>> ELSE Digits(n \div 10) \o <<48 + (n % 10)>>

\* %v of an integer: a minus sign for a negative one, then the digits.
FormatInt(n) == IF n < 0 THEN <<45>> \o Digits(-n) ELSE Digits(n)

\* A float64 is <<neg, halves>>: sign bit and magnitude in halves, so that
\* <<0, 0>> is +0, <<1, 0>> is -0 and <<1, 5>> is -2.5.
\* %v of a float64 is the shortest decimal that reads back: the sign bit
\* (also of a zero), the integer part and ".5" when there is a half.
FormatFloat(f) ==
    (IF f[1] = 1 THEN <<45>> ELSE <<>>)
        \o Digits(f[2] \div 2)
        \o (IF f[2] % 2 = 1 THEN <<46, 53>> ELSE <<>>)

\* %q of a string of printable ASCII: double quotes around it, a backslash
\* before every double quote and backslash inside it.
RECURSIVE Escape(_)
Escape(s) ==
    IF s = <<>> THEN <<>>
    ELSE (IF Head(s) \in {34, 92} THEN <<92, Head(s)>> ELSE <<Head(s)>>)
             \o Escape(Tail(s))

Quote(s) == <<34>> \o Escape(s) \o <<34>>

-----------------------------------------------------------------------------
(* Element types and values.                                               *)

\* The cases of less's type switch, by the branch they take.
IntCases ==
    {"byte", "int8", "int16", "int32", "int64", "int",
     "uint16", "uint32", "uint64", "uint"}
FloatCases == {"float32", "float64"}
StringCases == {"string"}

\* The element types this model instantiates Set with: one per branch of
\* less, and uintptr, a numeric type the switch does not list.
TypeNames == {"int", "uintptr", "float64", "string", "[2]string"}

\* The values of each type that the model draws elements from.  Every value
\* is equal to itself: NaN, which no map lookup finds again, is not among
\* the float64 values.
\*   int:       -7, 9, 10
\*   uintptr:   7, 9, 10
\*   float64:   +0, -0, -2.5
\*   string:    "A", "De", `a"`
\*   [2]string: {"a b", "c"}, {"a", "b c"}, {"a", "b"}
Universe(t) ==
    CASE t = "int" -> {-7, 9, 10}
      [] t = "uintptr" -> {7, 9, 10}
      [] t = "float64" -> {<<0, 0>>, <<1, 0>>, <<1, 5>>}
      [] t = "string" -> {<<65>>, <<68, 101>>, <<97, 34>>}
      [] t = "[2]string" ->
             {<< <<97, 32, 98>>, <<99>> >>,
              << <<97>>, <<98, 32, 99>> >>,
              << <<97>>, <<98>> >>}

\* Go's == on two values of type T, the equality a map compares keys with:
\* the two float zeros are equal.
KeyEq(a, b) ==
    IF T \in FloatCases THEN (a[2] = 0 /\ b[2] = 0) \/ a = b ELSE a = b

\* The value a floating-point element stands for, in halves.
FloatVal(f) == IF f[1] = 1 THEN -f[2] ELSE f[2]

\* fmt.Sprintf("%v", a).
Sprint(a) ==
    IF T \in IntCases \/ T = "uintptr" THEN FormatInt(a)
    ELSE IF T \in FloatCases THEN FormatFloat(a)
    ELSE IF T \in StringCases THEN a
    ELSE <<91>> \o a[1] \o <<Space>> \o a[2] \o <<93>>

less(a, b) ==
    IF T \in IntCases THEN a < b
    ELSE IF T \in FloatCases THEN FloatVal(a) < FloatVal(b)
    ELSE IF T \in StringCases THEN StrLess(a, b)
    ELSE StrLess(Sprint(a), Sprint(b))


\* sort.Slice(data, less) on fewer than 12 elements is an insertion sort:
\* element i moves down while it is less than the one before it.
Swap(data, i, j) == [data EXCEPT ![i] = data[j], ![j] = data[i]]

RECURSIVE SiftDown(_, _)
SiftDown(data, j) ==
    IF j > 1 /\ less(data[j], data[j - 1])
    THEN SiftDown(Swap(data, j, j - 1), j - 1)
    ELSE data

RECURSIVE InsertionSort(_, _)
InsertionSort(data, i) ==
    IF i > Len(data) THEN data ELSE InsertionSort(SiftDown(data, i), i + 1)

SortSlice(data) == InsertionSort(data, 2)

-----------------------------------------------------------------------------
(* Maps.                                                                   *)

Vars == {"s", "t"}
VarSeq == <<"s", "t">>

\* The zero value of Set[T]: the nil map.
Nil == 0

\* References to map storage: one per variable, and one for the map a call
\* makes while every variable still holds its own.
Refs == 1 .. (Len(VarSeq) + 1)
Fresh == Len(VarSeq) + 1

\* The keys of the map p refers to; a nil map reads as an empty one.
Load(h, p) == IF p = Nil THEN {} ELSE h[p]

\* len(m).
len(h, p) == Cardinality(Load(h, p))

\* _, found := m[element].
MapLookup(m, element) == \E k \in m : KeyEq(k, element)

\* m[element] = struct{}{}: a key equal to element is replaced by element
\* (the runtime updates the stored key of types whose equal values can
\* differ, such as the float zeros), otherwise element is added.
MapAssign(m, element) == {k \in m : ~KeyEq(k, element)} \cup {element}

\* delete(m, element).
MapDelete(m, element) == {k \in m : ~KeyEq(k, element)}

\* The orders in which `for element := range m` may visit the keys of m.
Orders(m) ==
    {o \in [1 .. Cardinality(m) -> m] : \A i, j \in DOMAIN o : o[i] = o[j] => i = j}

\* A call in progress: the heap, and whether it has panicked.
Running(h) == [h |-> h, err |-> FALSE]
Done(st, r) == [h |-> st.h, ret |-> r, err |-> st.err]

\* p[element] = struct{}{} inside a call: assignment to an entry of a nil
\* map panics.
Assign(st, p, element) ==
    IF st.err THEN st
    ELSE IF p = Nil THEN [st EXCEPT !.err = TRUE]
    ELSE [st EXCEPT !.h[p] = MapAssign(@, element)]

\* delete(p, element) inside a call: a no-op on a nil map.
Remove(st, p, element) ==
    IF st.err \/ p = Nil THEN st
    ELSE [st EXCEPT !.h[p] = MapDelete(@, element)]

\* make(Set[T], n) and Set[T]{}: an empty map at a reference nothing holds.
Make(st, fresh) == [st EXCEPT !.h[fresh] = {}]

\* for _, element := range elements { p[element] = struct{}{} }
RECURSIVE AssignAll(_, _, _, _)
AssignAll(st, p, elements, i) ==
    IF i > Len(elements) \/ st.err THEN st
    ELSE AssignAll(Assign(st, p, elements[i]), p, elements, i + 1)

\* for _, element := range elements { delete(p, element) }
RECURSIVE RemoveAll(_, _, _, _)
RemoveAll(st, p, elements, i) ==
    IF i > Len(elements) THEN st
    ELSE RemoveAll(Remove(st, p, elements[i]), p, elements, i + 1)

-----------------------------------------------------------------------------
(* The operations of Set[T].  h is the heap the call starts in, me and     *)
(* other are references (or Nil), fresh is the reference of the map the    *)
(* call makes, ord, ord1, ord2 are the orders its range loops visit in.    *)
(* Each returns [h, ret, err].                                             *)

\* A slip: the set is declared and never made, so it is nil.
NewNoMake(h, fresh, elements) ==
    Done(AssignAll(Running(h), Nil, elements, 1), Nil)

New(h, fresh, elements) ==
    Done(AssignAll(Make(Running(h), fresh), fresh, elements, 1), fresh)

Add(h, me, elements) == Done(AssignAll(Running(h), me, elements, 1), "void")

\* A slip: the loop starts at the second element.
DeleteSkipsFirst(h, me, elements) ==
    Done(RemoveAll(Running(h), me, elements, 2), "void")

Delete(h, me, elements) == Done(RemoveAll(Running(h), me, elements, 1), "void")

Clear(h, me, ord) == Done(RemoveAll(Running(h), me, ord, 1), "void")

IsEmpty(h, me) == Done(Running(h), len(h, me) = 0)

Contains(h, me, element) == MapLookup(Load(h, me), element)

ContainsCall(h, me, element) == Done(Running(h), Contains(h, me, element))

\* for element := range ord { if probe.Contains(element) == want { dst[element] = struct{}{} } }
RECURSIVE AssignIf(_, _, _, _, _, _)
AssignIf(st, dst, ord, i, probe, want) ==
    IF i > Len(ord) \/ st.err THEN st
    ELSE AssignIf(IF Contains(st.h, probe, ord[i]) = want
                  THEN Assign(st, dst, ord[i])
                  ELSE st,
                  dst, ord, i + 1, probe, want)

Difference(h, me, other, fresh, ord) ==
    Done(AssignIf(Make(Running(h), fresh), fresh, ord, 1, other, FALSE), fresh)

\* A slip: the second loop, over other, is left out.
SymmetricDifferenceOneLoop(h, me, other, fresh, ord1, ord2) ==
    Done(AssignIf(Make(Running(h), fresh), fresh, ord1, 1, other, FALSE), fresh)

SymmetricDifference(h, me, other, fresh, ord1, ord2) ==
    LET a == AssignIf(Make(Running(h), fresh), fresh, ord1, 1, other, FALSE)
    IN  Done(AssignIf(a, fresh, ord2, 1, me, FALSE), fresh)

Intersection(h, me, other, fresh, ord1, ord2) ==
    LET a == AssignIf(Make(Running(h), fresh), fresh, ord1, 1, other, TRUE)
    IN  Done(AssignIf(a, fresh, ord2, 1, me, TRUE), fresh)

\* A slip: the union is built in the receiver, not in a new map.
UnionInPlace(h, me, other, fresh, ord1, ord2) ==
    Done(AssignAll(Running(h), me, ord2, 1), me)

Union(h, me, other, fresh, ord1, ord2) ==
    LET a == AssignAll(Make(Running(h), fresh), fresh, ord1, 1)
    IN  Done(AssignAll(a, fresh, ord2, 1), fresh)

Unite(h, me, other, ord) == Done(AssignAll(Running(h), me, ord, 1), "void")

\* A slip: the receiver itself is returned, not a new map.
CopyShared(h, me, fresh, ord) == Done(Running(h), me)

Copy(h, me, fresh, ord) ==
    Done(AssignAll(Make(Running(h), fresh), fresh, ord, 1), fresh)

\* for element := range ord { if probe.Contains(element) == hit { return false } }; true
RECURSIVE Scan(_, _, _, _, _)
Scan(h, probe, ord, i, hit) ==
    IF i > Len(ord) THEN TRUE
    ELSE IF Contains(h, probe, ord[i]) = hit THEN FALSE
    ELSE Scan(h, probe, ord, i + 1, hit)

\* A slip: the sizes are not compared.
EqualNoLen(h, me, other, ord) == Done(Running(h), Scan(h, other, ord, 1, FALSE))

Equal(h, me, other, ord) ==
    Done(Running(h),
         IF len(h, me) # len(h, other) THEN FALSE
         ELSE Scan(h, other, ord, 1, FALSE))

\* A slip: both scans return at the first element that is not shared.
IsDisjointNegated(h, me, other, ord1, ord2) ==
    Done(Running(h),
         IF ~Scan(h, other, ord1, 1, FALSE) THEN FALSE
         ELSE Scan(h, me, ord2, 1, FALSE))

IsDisjoint(h, me, other, ord1, ord2) ==
    Done(Running(h),
         IF ~Scan(h, other, ord1, 1, TRUE) THEN FALSE
         ELSE Scan(h, me, ord2, 1, TRUE))

\* result := make([]T, 0, len(me)); for element := range me { result = append(result, element) }
RECURSIVE AppendAll(_, _, _)
AppendAll(result, ord, i) ==
    IF i > Len(ord) THEN result ELSE AppendAll(Append(result, ord[i]), ord, i + 1)

\* The zero value of T.
ZeroValue ==
    IF T \in IntCases \/ T = "uintptr" THEN 0
    ELSE IF T \in FloatCases THEN <<0, 0>>
    ELSE IF T \in StringCases THEN <<>>
    ELSE << <<>>, <<>> >>

\* A slip: make([]T, len(me)), a slice of len(me) zero values to append to.
ToSliceZeroFilled(h, me, ord) ==
    Done(Running(h), AppendAll([i \in 1 .. Len(ord) |-> ZeroValue], ord, 1))

ToSlice(h, me, ord) == Done(Running(h), AppendAll(<<>>, ord, 1))

ToSortedSlice(h, me, ord) == Done(Running(h), SortSlice(AppendAll(<<>>, ord, 1)))

\* One element as String writes it: %q of a string, %v of anything else.
WriteElement(element) ==
    IF T \in StringCases THEN Quote(element) ELSE Sprint(element)

\* sep := ""; for _, element := range elements { write sep, element; sep = " " }
RECURSIVE WriteAll(_, _, _, _)
WriteAll(s, elements, i, sep) ==
    IF i > Len(elements) THEN s
    ELSE WriteAll(s \o sep \o WriteElement(elements[i]), elements, i + 1, <<Space>>)

\* A slip: the elements are not sorted.
StringUnsorted(h, me, ord) ==
    Done(Running(h), WriteAll(<<LBrace>>, AppendAll(<<>>, ord, 1), 1, <<>>) \o <<RBrace>>)

String(h, me, ord) ==
    Done(Running(h),
         WriteAll(<<LBrace>>, SortSlice(AppendAll(<<>>, ord, 1)), 1, <<>>)
             \o <<RBrace>>)

-----------------------------------------------------------------------------
(* The client: it calls one operation at a time on its variables, sees the *)
(* result, and goes on.  A panic ends the run.                             *)

Producers ==
    {"New", "Difference", "SymmetricDifference", "Intersection", "Union", "Copy"}
Mutators == {"Add", "Delete", "Clear", "Unite"}

NoCall ==
    [op |-> "none", me |-> "none", other |-> "none", dst |-> "none",
     elements |-> <<>>, idx |-> 0,
     sets |-> [v \in Vars |-> Nil], heap |-> [r \in Refs |-> {}],
     post |-> [r \in Refs |-> {}], slice |-> <<>>]
NoRet == [kind |-> "none", val |-> "none"]
NoLink == [orig |-> "none", copy |-> "none", touched |-> "none", val |-> {}]

\* The argument lists of a variadic call.
ArgLists == UNION {[1 .. n -> Universe(T)] : n \in 0 .. MaxArgs}

\* Storage is named by the first variable that refers to it, and storage no
\* variable refers to is reclaimed: addresses carry no meaning.
Canon(ss, v) ==
    IF ss[v] = Nil THEN Nil
    ELSE CHOOSE i \in 1 .. Len(VarSeq) :
             /\ ss[VarSeq[i]] = ss[v]
             /\ \A j \in 1 .. (i - 1) : ss[VarSeq[j]] # ss[v]
NormSets(ss) == [v \in Vars |-> Canon(ss, v)]
NormHeap(ss, h) ==
    [r \in Refs |->
        IF r <= Len(VarSeq) /\ Canon(ss, VarSeq[r]) = r THEN h[ss[VarSeq[r]]] ELSE {}]

\* The value an element stands for: equal keys stand for the same value.
Class(element) ==
    IF T \in FloatCases /\ element[2] = 0 THEN <<0, 0>> ELSE element
Classes(elements) == {Class(elements[i]) : i \in DOMAIN elements}

\* The reference: what the same call does to mathematical sets.
RefStep(op, me, other, dst, elements) ==
    CASE op = "New" -> [ref EXCEPT ![dst] = Classes(elements)]
      [] op = "Add" -> [ref EXCEPT ![me] = @ \cup Classes(elements)]
      [] op = "Delete" -> [ref EXCEPT ![me] = @ \ Classes(elements)]
      [] op = "Clear" -> [ref EXCEPT ![me] = {}]
      [] op = "Unite" -> [ref EXCEPT ![me] = @ \cup ref[other]]
      [] op = "Difference" -> [ref EXCEPT ![dst] = ref[me] \ ref[other]]
      [] op = "SymmetricDifference" ->
             [ref EXCEPT ![dst] = (ref[me] \ ref[other]) \cup (ref[other] \ ref[me])]
      [] op = "Intersection" -> [ref EXCEPT ![dst] = ref[me] \cap ref[other]]
      [] op = "Union" -> [ref EXCEPT ![dst] = ref[me] \cup ref[other]]
      [] op = "Copy" -> [ref EXCEPT ![dst] = ref[me]]
      [] OTHER -> ref

\* What the call does to the record of the last c := s.Copy(): a copy into
\* another variable starts it, a change of one side is noted, a change of
\* both sides or a reassignment of either variable ends it.
LinkStep(op, me, dst, keys) ==
    IF op = "Copy" /\ dst # me
    THEN [orig |-> me, copy |-> dst, touched |-> "none", val |-> keys]
    ELSE IF link = NoLink THEN NoLink
    ELSE IF op \in Producers
    THEN IF dst \in {link.orig, link.copy} THEN NoLink ELSE link
    ELSE IF op \in Mutators /\ me \in {link.orig, link.copy}
    THEN LET side == IF me = link.orig THEN "orig" ELSE "copy"
         IN  IF link.touched \in {"none", side}
             THEN [link EXCEPT !.touched = side]
             ELSE NoLink
    ELSE link

\* The call op(me, other, elements), whose result r the client assigns to
\* dst when it is a set.
Commit(op, me, other, dst, elements, r, kind) ==
    /\ pc = "idle"
    /\ last' = [op |-> op, me |-> me, other |-> other, dst |-> dst,
                elements |-> elements, idx |-> 0,
                sets |-> sets, heap |-> heap, post |-> r.h, slice |-> slice]
    /\ IF r.err
       THEN /\ pc' = "panicked"
            /\ heap' = NormHeap(sets, r.h)
            /\ ret' = NoRet
            /\ UNCHANGED <<sets, ref, link>>
       ELSE LET ss == IF kind = "set" THEN [sets EXCEPT ![dst] = r.ret] ELSE sets
            IN  /\ pc' = "returned"
                /\ sets' = NormSets(ss)
                /\ heap' = NormHeap(ss, r.h)
                /\ ret' = [kind |-> kind, val |-> IF kind = "set" THEN dst ELSE r.ret]
                /\ ref' = RefStep(op, me, other, dst, elements)
                /\ link' = LinkStep(op, me, dst, Load(r.h, sets[me]))
    /\ UNCHANGED <<T, slice>>

Keys(v) == Load(heap, sets[v])

CallNew(V) ==
    /\ pc = "idle"
    /\ \E dst \in V, elements \in ArgLists :
        Commit("New", "none", "none", dst, elements, New(heap, Fresh, elements), "set")

CallAdd(V) ==
    /\ pc = "idle"
    /\ \E me \in V, elements \in ArgLists :
        Commit("Add", me, "none", "none", elements, Add(heap, sets[me], elements), "void")

CallDelete(V) ==
    /\ pc = "idle"
    /\ \E me \in V, elements \in ArgLists :
        Commit("Delete", me, "none", "none", elements,
               Delete(heap, sets[me], elements), "void")

CallClear(V) ==
    /\ pc = "idle"
    /\ \E me \in V : \E ord \in Orders(Keys(me)) :
        Commit("Clear", me, "none", "none", <<>>, Clear(heap, sets[me], ord), "void")

CallUnite ==
    /\ pc = "idle"
    /\ \E me \in Vars, other \in Vars : \E ord \in Orders(Keys(other)) :
        Commit("Unite", me, other, "none", <<>>,
               Unite(heap, sets[me], sets[other], ord), "void")

CallIsEmpty ==
    /\ pc = "idle"
    /\ \E me \in Vars :
        Commit("IsEmpty", me, "none", "none", <<>>, IsEmpty(heap, sets[me]), "bool")

CallContains ==
    /\ pc = "idle"
    /\ \E me \in Vars, element \in Universe(T) :
        Commit("Contains", me, "none", "none", <<element>>,
               ContainsCall(heap, sets[me], element), "bool")

CallToSlice(V) ==
    /\ pc = "idle"
    /\ \E me \in V : \E ord \in Orders(Keys(me)) :
        Commit("ToSlice", me, "none", "none", <<>>, ToSlice(heap, sets[me], ord), "slice")

CallToSortedSlice(V) ==
    /\ pc = "idle"
    /\ \E me \in V : \E ord \in Orders(Keys(me)) :
        Commit("ToSortedSlice", me, "none", "none", <<>>,
               ToSortedSlice(heap, sets[me], ord), "slice")

CallString ==
    /\ pc = "idle"
    /\ \E me \in Vars : \E ord \in Orders(Keys(me)) :
        Commit("String", me, "none", "none", <<>>, String(heap, sets[me], ord), "string")

CallDifference ==
    /\ pc = "idle"
    /\ \E me \in Vars, other \in Vars, dst \in Vars : \E ord \in Orders(Keys(me)) :
        Commit("Difference", me, other, dst, <<>>,
               Difference(heap, sets[me], sets[other], Fresh, ord), "set")

CallSymmetricDifference ==
    /\ pc = "idle"
    /\ \E me \in Vars, other \in Vars, dst \in Vars :
        \E ord1 \in Orders(Keys(me)), ord2 \in Orders(Keys(other)) :
            Commit("SymmetricDifference", me, other, dst, <<>>,
                   SymmetricDifference(heap, sets[me], sets[other], Fresh, ord1, ord2),
                   "set")

CallIntersection ==
    /\ pc = "idle"
    /\ \E me \in Vars, other \in Vars, dst \in Vars :
        \E ord1 \in Orders(Keys(me)), ord2 \in Orders(Keys(other)) :
            Commit("Intersection", me, other, dst, <<>>,
                   Intersection(heap, sets[me], sets[other], Fresh, ord1, ord2), "set")

CallUnion ==
    /\ pc = "idle"
    /\ \E me \in Vars, other \in Vars, dst \in Vars :
        \E ord1 \in Orders(Keys(me)), ord2 \in Orders(Keys(other)) :
            Commit("Union", me, other, dst, <<>>,
                   Union(heap, sets[me], sets[other], Fresh, ord1, ord2), "set")

CallCopy ==
    /\ pc = "idle"
    /\ \E me \in Vars, dst \in Vars : \E ord \in Orders(Keys(me)) :
        Commit("Copy", me, "none", dst, <<>>, Copy(heap, sets[me], Fresh, ord), "set")

CallEqual ==
    /\ pc = "idle"
    /\ \E me \in Vars, other \in Vars : \E ord \in Orders(Keys(me)) :
        Commit("Equal", me, other, "none", <<>>,
               Equal(heap, sets[me], sets[other], ord), "bool")

CallIsDisjoint ==
    /\ pc = "idle"
    /\ \E me \in Vars, other \in Vars :
        \E ord1 \in Orders(Keys(me)), ord2 \in Orders(Keys(other)) :
            Commit("IsDisjoint", me, other, "none", <<>>,
                   IsDisjoint(heap, sets[me], sets[other], ord1, ord2), "bool")

\* The client has seen the result and drops it.
Return ==
    /\ pc = "returned"
    /\ pc' = "idle"
    /\ last' = NoCall
    /\ ret' = NoRet
    /\ UNCHANGED <<T, sets, heap, ref, link, slice>>

\* u := s.ToSlice(): the client keeps the slice it was returned.
Keep ==
    /\ pc = "returned"
    /\ ret.kind = "slice"
    /\ slice' = ret.val
    /\ pc' = "idle"
    /\ last' = NoCall
    /\ ret' = NoRet
    /\ UNCHANGED <<T, sets, heap, ref, link>>

\* u[i] = x: the client changes the slice it holds.
SliceWrite ==
    /\ pc = "idle"
    /\ \E i \in 1 .. Len(slice), x \in Universe(T) :
        /\ slice' = [slice EXCEPT ![i] = x]
        /\ last' = [NoCall EXCEPT !.op = "SliceWrite", !.elements = <<x>>, !.idx = i,
                                  !.sets = sets, !.heap = heap, !.post = heap,
                                  !.slice = slice]
    /\ pc' = "returned"
    /\ ret' = NoRet
    /\ UNCHANGED <<T, sets, heap, ref, link>>

Init ==
    /\ T \in TypeNames
    /\ sets = [v \in Vars |-> Nil]
    /\ heap = [r \in Refs |-> {}]
    /\ pc = "idle"
    /\ last = NoCall
    /\ ret = NoRet
    /\ ref = [v \in Vars |-> {}]
    /\ link = NoLink
    /\ slice = <<>>

Next ==
    \/ CallNew(Vars)
    \/ CallAdd(Vars)
    \/ CallDelete(Vars)
    \/ CallClear(Vars)
    \/ CallUnite
    \/ CallIsEmpty
    \/ CallContains
    \/ CallToSlice(Vars)
    \/ CallToSortedSlice(Vars)
    \/ CallString
    \/ CallDifference
    \/ CallSymmetricDifference
    \/ CallIntersection
    \/ CallUnion
    \/ CallCopy
    \/ CallEqual
    \/ CallIsDisjoint
    \/ Return

Spec == Init /\ [][Next]_vars

\* The client of one set that keeps and changes the slices it is returned.
NextSlice ==
    \/ CallNew({"s"})
    \/ CallAdd({"s"})
    \/ CallDelete({"s"})
    \/ CallClear({"s"})
    \/ CallToSlice({"s"})
    \/ CallToSortedSlice({"s"})
    \/ Return
    \/ Keep
    \/ SliceWrite

SpecSlice == Init /\ [][NextSlice]_vars

-----------------------------------------------------------------------------
(* What the claims are stated in.                                          *)

\* The values for which p.Contains answers true.
Members(h, p) == {Class(x) : x \in {u \in Universe(T) : Contains(h, p, u)}}

\* The call just returned was op.
Returned(op) == pc = "returned" /\ last.op = op

\* The receiver and the argument of the last call, as references, and the
\* keys each held when the call was made.
MeRef == last.sets[last.me]
OtherRef == last.sets[last.other]
PreKeys(v) == Load(last.heap, last.sets[v])

\* The heap h with room for the sets a formula builds.
Room(h) == [r \in 1 .. (Fresh + 3) |-> IF r \in Refs THEN h[r] ELSE {}]

\* a.Equal(b) answers true in h whatever order it ranges in.
AlwaysEqual(h, a, b) == \A o \in Orders(Load(h, a)) : Equal(h, a, b, o).ret

AlgebraOps == {"Difference", "SymmetricDifference", "Intersection", "Union"}

-----------------------------------------------------------------------------
(* C1 *)

\* In the heap the call left, the set at Fresh is Equal to
\* me.Difference(other).Union(other.Difference(me)), whatever the orders.
SymDiffLaw ==
    \A o1 \in Orders(PreKeys(last.me)), o2 \in Orders(PreKeys(last.other)) :
        LET d1 == Difference(Room(last.post), MeRef, OtherRef, Fresh + 1, o1)
            d2 == Difference(d1.h, OtherRef, MeRef, Fresh + 2, o2)
        IN  \A o3 \in Orders(d2.h[Fresh + 1]), o4 \in Orders(d2.h[Fresh + 2]) :
                LET u == Union(d2.h, Fresh + 1, Fresh + 2, Fresh + 3, o3, o4)
                IN  /\ ~u.err
                    /\ AlwaysEqual(u.h, Fresh, Fresh + 3)

\* In the heap the call left, the set at Fresh is Equal to other.Union(me).
UnionCommutes ==
    \A o1 \in Orders(PreKeys(last.other)), o2 \in Orders(PreKeys(last.me)) :
        LET u == Union(Room(last.post), OtherRef, MeRef, Fresh + 1, o1, o2)
        IN  AlwaysEqual(u.h, Fresh, Fresh + 1)

\* C1: a.Difference(b) holds exactly the elements of a not in b,
\* a.Intersection(b) those in both, a.Union(b) those in either,
\* a.SymmetricDifference(b) those in exactly one, each once; and
\* a.SymmetricDifference(b) is Equal to a.Difference(b).Union(b.Difference(a)),
\* and a.Union(b) is Equal to b.Union(a).
C1_SetAlgebra ==
    (pc = "returned" /\ last.op \in AlgebraOps) =>
        LET a == Members(last.heap, MeRef)
            b == Members(last.heap, OtherRef)
            r == Members(heap, sets[last.dst])
        IN  /\ r = CASE last.op = "Difference" -> a \ b
                     [] last.op = "Intersection" -> a \cap b
                     [] last.op = "Union" -> a \cup b
                     [] last.op = "SymmetricDifference" -> (a \ b) \cup (b \ a)
            /\ len(heap, sets[last.dst]) = Cardinality(r)
            /\ Keys(last.dst) \subseteq PreKeys(last.me) \cup PreKeys(last.other)
            /\ last.op = "SymmetricDifference" => SymDiffLaw
            /\ last.op = "Union" => UnionCommutes

\* A symmetric difference of two sets that overlap and each hold an element
\* the other lacks.
C1_Witness ==
    /\ Returned("SymmetricDifference")
    /\ last.me # last.other
    /\ PreKeys(last.me) \cap PreKeys(last.other) # {}
    /\ PreKeys(last.me) \ PreKeys(last.other) # {}
    /\ PreKeys(last.other) \ PreKeys(last.me) # {}

-----------------------------------------------------------------------------
(* C2 *)

\* Every variable's set has the members and the size of its reference.
MatchesReference ==
    \A v \in Vars :
        /\ Members(heap, sets[v]) = ref[v]
        /\ len(heap, sets[v]) = Cardinality(ref[v])

\* From any set the client holds: Add(x) twice is Add(x) once, and Add(x)
\* then Delete(x) gives back the keys of a set that did not hold x.
AddDeleteLaws ==
    \A v \in Vars, x \in Universe(T) :
        sets[v] # Nil =>
            LET once == Add(heap, sets[v], <<x>>)
                twice == Add(once.h, sets[v], <<x>>)
                back == Delete(once.h, sets[v], <<x>>)
            IN  /\ twice.h = once.h
                /\ ~Contains(heap, sets[v], x) => back.h = heap

\* C2: from New on, through Add, Delete, Clear and Unite, Contains and len
\* agree with a mathematical set driven by the same calls: New yields the
\* distinct elements given, Add of present and Delete of absent elements
\* change nothing, Add(x) twice is Add(x) once, Add(x) then Delete(x)
\* restores a set that lacked x, Clear leaves size 0, and the size is the
\* number of distinct members.
C2_MatchesReference ==
    /\ MatchesReference
    /\ pc = "idle" => AddDeleteLaws
    /\ Returned("New") =>
           /\ Members(heap, sets[last.dst]) = Classes(last.elements)
           /\ len(heap, sets[last.dst]) = Cardinality(Classes(last.elements))
    /\ (Returned("Add")
            /\ \A i \in DOMAIN last.elements :
                   Contains(last.heap, MeRef, last.elements[i])) =>
           Members(heap, sets[last.me]) = Members(last.heap, MeRef)
    /\ (Returned("Delete")
            /\ \A i \in DOMAIN last.elements :
                   ~Contains(last.heap, MeRef, last.elements[i])) =>
           Keys(last.me) = PreKeys(last.me)
    /\ Returned("Clear") => len(heap, sets[last.me]) = 0

\* A Delete of one element the set held and one it did not, that left the
\* set non-empty.
C2_Witness ==
    /\ Returned("Delete")
    /\ Keys(last.me) # {}
    /\ \E i, j \in DOMAIN last.elements :
           /\ Contains(last.heap, MeRef, last.elements[i])
           /\ ~Contains(last.heap, MeRef, last.elements[j])

-----------------------------------------------------------------------------
(* C3 *)

\* In the heap the call left, the receiver is Equal to the union, made
\* before the call, of the receiver and the argument.
UniteIsUnion ==
    \A o1 \in Orders(PreKeys(last.me)), o2 \in Orders(PreKeys(last.other)) :
        LET u == Union(Room(last.heap), MeRef, OtherRef, Fresh + 1, o1, o2)
            both == [Room(last.post) EXCEPT ![Fresh + 1] = u.h[Fresh + 1]]
        IN  AlwaysEqual(both, MeRef, Fresh + 1)

\* C3: Difference, SymmetricDifference, Intersection, Union and Copy leave
\* the receiver and the argument with the keys they had, and return a set
\* that shares storage with neither; Unite(other) leaves other as it was
\* and makes the receiver Equal to the earlier receiver.Union(other); also
\* when the argument is the receiver itself.
C3_Frame ==
    /\ (pc = "returned" /\ last.op \in AlgebraOps \cup {"Copy"}) =>
           /\ \A v \in Vars : Load(last.post, last.sets[v]) = PreKeys(v)
           /\ \A v \in Vars \ {last.dst} : sets[v] = Nil \/ sets[v] # sets[last.dst]
    /\ Returned("Unite") =>
           /\ Load(last.post, OtherRef) = PreKeys(last.other)
           /\ \A v \in Vars \ {last.me} : Keys(v) = PreKeys(v)
           /\ UniteIsUnion

\* A Union of a non-empty set with itself, assigned to the other variable.
C3_Witness ==
    /\ Returned("Union")
    /\ last.me = last.other
    /\ last.dst # last.me
    /\ Cardinality(PreKeys(last.me)) >= 2

-----------------------------------------------------------------------------
(* C4 *)

\* C4: c := s.Copy() is Equal to s right after the call; while only c has
\* been changed since (by Add, Delete, Clear or Unite) s holds the keys it
\* held at the copy, and while only s has been changed c does: they share
\* no storage.
C4_CopyIndependent ==
    link # NoLink =>
        /\ sets[link.copy] # Nil
        /\ sets[link.copy] # sets[link.orig]
        /\ link.touched = "none" =>
               /\ AlwaysEqual(heap, sets[link.copy], sets[link.orig])
               /\ AlwaysEqual(heap, sets[link.orig], sets[link.copy])
        /\ link.touched # "orig" => Keys(link.orig) = link.val
        /\ link.touched # "copy" => Keys(link.copy) = link.val

\* The copy has been changed and now differs from the original, which is
\* not empty.
C4_Witness ==
    /\ link # NoLink
    /\ link.touched = "copy"
    /\ link.val # {}
    /\ Keys(link.copy) # Keys(link.orig)
    /\ Keys(link.copy) # {}

-----------------------------------------------------------------------------
(* C5 *)

\* C5: a.Equal(b) is true exactly when a and b have the same members (equal
\* sizes and every element of a in b is enough), and a.Equal(b) = b.Equal(a).
C5_Equal ==
    Returned("Equal") =>
        /\ ret.val = (Members(heap, sets[last.me]) = Members(heap, sets[last.other]))
        /\ \A o \in Orders(Keys(last.other)) :
               Equal(heap, sets[last.other], sets[last.me], o).ret = ret.val

\* Equal answered false for two different sets of the same size.
C5_Witness ==
    /\ Returned("Equal")
    /\ ret.val = FALSE
    /\ len(heap, sets[last.me]) = len(heap, sets[last.other])
    /\ len(heap, sets[last.me]) >= 2

-----------------------------------------------------------------------------
(* C10 *)

\* C10: a.IsDisjoint(b) is true exactly when no element is a member of
\* both; the two scans answer what the first scan alone answers, and
\* a.IsDisjoint(b) = b.IsDisjoint(a).
C10_IsDisjoint ==
    Returned("IsDisjoint") =>
        /\ ret.val =
               (Members(heap, sets[last.me]) \cap Members(heap, sets[last.other]) = {})
        /\ \A o \in Orders(Keys(last.me)) :
               Scan(heap, sets[last.other], o, 1, TRUE) = ret.val
        /\ \A o1 \in Orders(Keys(last.other)), o2 \in Orders(Keys(last.me)) :
               IsDisjoint(heap, sets[last.other], sets[last.me], o1, o2).ret = ret.val

\* IsDisjoint answered false for two sets that share an element and each
\* hold one the other lacks.
C10_Witness ==
    /\ Returned("IsDisjoint")
    /\ ret.val = FALSE
    /\ Keys(last.me) \ Keys(last.other) # {}
    /\ Keys(last.other) \ Keys(last.me) # {}

-----------------------------------------------------------------------------
(* C6 *)

\* The text of a set whose elements are written in the order given.
TextOf(elements) == WriteAll(<<LBrace>>, elements, 1, <<>>) \o <<RBrace>>

\* Whatever order v is ranged in, v.String() is the text the call returned,
\* and that text holds the elements in the order of v.ToSortedSlice().
SameTextAs(v) ==
    \A o \in Orders(Keys(v)) :
        /\ String(heap, sets[v], o).ret = ret.val
        /\ ret.val = TextOf(ToSortedSlice(heap, sets[v], o).ret)

\* C6, as claimed: for any two sets that are Equal, whatever the insertions
\* that built them and the order the map is ranged in, String() returns the
\* same text, with the elements in the order of ToSortedSlice, for every
\* element type.
C6_EqualSetsSameText ==
    Returned("String") =>
        \A v \in Vars :
            AlwaysEqual(heap, sets[last.me], sets[v]) => SameTextAs(v)

\* C6, amended: the same for two Equal sets that hold the same keys, which
\* leaves out only a floating-point zero held as +0 by one set and as -0 by
\* the other.
C6_SameKeysSameText ==
    Returned("String") =>
        \A v \in Vars :
            (AlwaysEqual(heap, sets[last.me], sets[v]) /\ Keys(v) = Keys(last.me)) =>
                SameTextAs(v)

\* String() of a set of three arrays, two of which render alike, while the
\* other variable holds an Equal set.
C6_Witness ==
    /\ Returned("String")
    /\ T = "[2]string"
    /\ Cardinality(Keys(last.me)) = 3
    /\ \E v \in Vars \ {last.me} :
           /\ sets[v] # sets[last.me]
           /\ AlwaysEqual(heap, sets[last.me], sets[v])

-----------------------------------------------------------------------------
(* C7 *)

\* Go's numeric types among the element types (complex types have no <).
NumericTypes == IntCases \cup FloatCases \cup {"uint8", "uintptr"}

\* a comes before b in the order the claim states for T.
ClaimedBefore(a, b) ==
    IF T \in NumericTypes
    THEN IF T \in FloatCases THEN FloatVal(a) < FloatVal(b) ELSE a < b
    ELSE IF T \in StringCases THEN StrLess(a, b)
    ELSE ~StrLess(Sprint(b), Sprint(a))

\* C7: ToSortedSlice() returns every member exactly once, in ascending
\* numeric order for every numeric element type, in lexicographic order for
\* strings, and in the order of the renderings for any other type.
C7_SortedAsClaimed ==
    Returned("ToSortedSlice") =>
        /\ Len(ret.val) = len(heap, sets[last.me])
        /\ {ret.val[i] : i \in DOMAIN ret.val} = Keys(last.me)
        /\ \A i, j \in DOMAIN ret.val : i < j => ClaimedBefore(ret.val[i], ret.val[j])

-----------------------------------------------------------------------------
(* C8 *)

-----------------------------------------------------------------------------
(* C9 *)

\* The last call wrote to a nil receiver: Add of at least one element, or
\* Unite with a set that is not empty.
WroteToNil ==
    \/ last.op = "Add" /\ MeRef = Nil /\ last.elements # <<>>
    \/ last.op = "Unite" /\ MeRef = Nil /\ PreKeys(last.other) # {}

\* C9, as claimed: no operation panics, whatever the receiver, the argument
\* and the elements.
C9_NoPanic == pc # "panicked"

\* C9, amended: New and the operations that return a set return one that is
\* not nil, and a call panics exactly when it is an Add of at least one
\* element, or a Unite with a non-empty set, on a nil receiver; every other
\* call, on a nil set too, completes.
C9_OnlyNilWritesPanic ==
    /\ pc = "panicked" => WroteToNil
    /\ pc = "returned" /\ last.op \in {"Add", "Unite"} => ~WroteToNil
    /\ pc = "returned" /\ last.op \in Producers => sets[last.dst] # Nil

\* A Delete of elements from a nil set, which completed.
C9_Witness ==
    /\ Returned("Delete")
    /\ MeRef = Nil
    /\ last.elements # <<>>

=============================================================================
